---- MODULE Spec2Model ----
(***************************************************************************)
(* The upload / finalize protocol, the version-guarded asset mutations and *)
(* the download-token cache of apps/api/src/resolvers.ts, over the ledger   *)
(* tables of supabase/migrations/20250101000000_initial_schema.sql.         *)
(*                                                                         *)
(* Every resolver is an async function: each `await supabase...` is one     *)
(* ledger (or blob store) call, executed atomically by the database, and    *)
(* the resolvers of concurrent requests interleave between these calls.     *)
(* A request is run by a process p; pc[p] is the call it will issue next    *)
(* and req[p] holds its arguments and locals.  A request's arrival and its  *)
(* first call are one step.  ret is the response a step has just produced;  *)
(* Respond hands it to the caller before anything else happens, so ret is   *)
(* NoRet whenever a resolver takes a step.                                  *)
(*                                                                         *)
(* Time is counted in units of 30 s.  A stored timestamp is kept as its     *)
(* offset from the current instant (expires_at - now), so the clock itself  *)
(* is not a variable; an offset below zero is clipped to -1, since the code *)
(* only ever asks whether a timestamp is in the past.  A ticket's remaining *)
(* life is followed in whole lifetimes only: waits shorter than a lifetime  *)
(* age the tokens, not the tickets.                                         *)
(***************************************************************************)
EXTENDS Integers, FiniteSets, Sequences, TLC

VARIABLES
    assets,          \* table asset: id -> row
    tickets,         \* table upload_ticket: asset_id -> row
    shares,          \* table asset_share: set of rows
    audit,           \* table download_audit: set of rows
    created,         \* asset ids crypto.randomUUID() has produced
    blobs,           \* bucket private-media: asset id (its storage path) -> digest of the bytes
    signedUploads,   \* asset ids whose storage path has a signed upload URL
    urlAccessCache,  \* the Map urlAccessCache: token -> entry
    minted,          \* number of access tokens crypto.randomBytes(32) has produced
    pc, req, ret,
    validations      \* history: successful validateDownloadToken calls, per token

vars == <<assets, tickets, shares, audit, created, blobs, signedUploads,
          urlAccessCache, minted, pc, req, ret, validations>>

ledger == <<assets, tickets, shares, audit>>

----------------------------------------------------------------------------
(* Bounds of the model *)

\* rows of the asset table when it is listed
MaxRows == 3

\* expectedVersion arguments range over 1 .. MaxVersion
MaxVersion == 2

\* access tokens minted over a run
MaxTokens == 1

\* the history counters stop counting here
MaxCount == 2

Procs == {"p1", "p2"}

Users == {"u1", "u2"}

\* user ids are interchangeable: the user who uploads is called u1
Uploaders == {"u1"}

\* ctx.userId of a request whose bearer token resolved to no user
NoUser == "anonymous"

AssetIds == {"a1"}

\* sha256 digests of uploaded bytes
Hashes == {"h1"}

\* what a client may claim: the digest, another digest, the empty string
ClientHashes == {"h1", "h2", ""}

\* asset.sha256 before any finalize (SQL NULL)
NullHash == "null"

\* filenames as character sequences
Filenames == {<<"a">>, <<"b", " ", " ">>}

Mimes == {"image/png", "text/html"}

\* the users table: email -> id
UserByEmail == [e \in {"e1", "e2"} |-> IF e = "e1" THEN "u1" ELSE "u2"]

\* toEmail arguments: the other user's address, and one that belongs to nobody
Emails == {"e2", "e0"}

Versions == 1..MaxVersion

TokenIds == 1..MaxTokens

----------------------------------------------------------------------------
(* Program constants, in units of 30 s *)

\* new Date(Date.now() + 10 * 60 * 1000)
TicketTTL == 20

\* Date.now() + 90 * 1000
TokenTTL == 3

\* the allow-list with a type that does not belong on it
ALLOWED_MIMES_WithHtml ==
    {"image/jpeg", "image/png", "image/webp", "application/pdf", "text/html"}

ALLOWED_MIMES == {"image/jpeg", "image/png", "image/webp", "application/pdf"}

----------------------------------------------------------------------------
(* Pure helpers *)

SafeChars == {"a", "b", ".", "_", "-"}

RECURSIVE Collapse(_)
\* .replace(/_+/g, "_")
Collapse(s) ==
    IF Len(s) < 2 THEN s
    ELSE IF s[1] = "_" /\ s[2] = "_" THEN Collapse(Tail(s))
    ELSE <<s[1]>> \o Collapse(Tail(s))

\* filename.replace(/[^a-zA-Z0-9._-]/g, "_").replace(/_+/g, "_").trim()
sanitizeFilename(filename) ==
    Collapse([i \in 1..Len(filename) |->
                 IF filename[i] \in SafeChars THEN filename[i] ELSE "_"])

\* `${userId}/${assetId}/${sanitizedFilename}`
StoragePath(userId, assetId, filename) ==
    <<userId, assetId, sanitizeFilename(filename)>>

\* a timestamp offset after d units have passed
Age(t, d) == IF t - d < -1 THEN -1 ELSE t - d

\* a ticket's expires_at offset after d units have passed
AgeTicket(t, d) == IF d > TicketTTL THEN Age(t, d) ELSE t

\* the status without the test of the claimed hash
FinalizeStatus_AlwaysReady(clientSha256) == "ready"

\* the status with the two branches of the conditional exchanged
FinalizeStatus_Swapped(clientSha256) == IF clientSha256 # "" THEN "corrupt" ELSE "ready"

\* const status = clientSha256 ? "ready" : "corrupt"
FinalizeStatus(clientSha256) == IF clientSha256 # "" THEN "ready" ELSE "corrupt"

\* the ticket read without the user_id filter
LiveTicket_AnyUser(assetId, userId) ==
    /\ assetId \in DOMAIN tickets
    /\ tickets[assetId].used = FALSE

\* .eq("asset_id", assetId).eq("user_id", userId).eq("used", false).single()
LiveTicket(assetId, userId) ==
    /\ assetId \in DOMAIN tickets
    /\ tickets[assetId].user_id = userId
    /\ tickets[assetId].used = FALSE

\* the read without the owner_id filter
OwnedAtVersion_AnyOwner(assetId, userId, version) ==
    /\ assetId \in DOMAIN assets
    /\ assets[assetId].version = version

\* .eq("id", assetId).eq("owner_id", userId).eq("version", version).single()
OwnedAtVersion(assetId, userId, version) ==
    /\ assetId \in DOMAIN assets
    /\ assets[assetId].owner_id = userId
    /\ assets[assetId].version = version

\* the share lookup without the can_download filter
DownloadGrant_AnyFlag(assetId, userId) ==
    \E s \in shares : /\ s.asset_id = assetId
                      /\ s.to_user = userId

\* the share lookup with the owner's id where the caller's belongs
DownloadGrant_OwnerId(assetId, userId) ==
    \E s \in shares : /\ s.asset_id = assetId
                      /\ assetId \in DOMAIN assets
                      /\ s.to_user = assets[assetId].owner_id
                      /\ s.can_download = TRUE

\* .eq("asset_id", assetId).eq("to_user", userId).eq("can_download", true)
DownloadGrant(assetId, userId) ==
    \E s \in shares : /\ s.asset_id = assetId
                      /\ s.to_user = userId
                      /\ s.can_download = TRUE

\* no expiry test at all
Expired_Never(expiresAt) == FALSE

\* data.expiresAt < now  /  cached.expiresAt < Date.now()
Expired(expiresAt) == expiresAt < 0

Restrict(f, S) == [x \in S |-> f[x]]

\* a history counter, one more
Count(n) == IF n < MaxCount THEN n + 1 ELSE n

\* a table with no rows
Empty == [x \in {} |-> x]

----------------------------------------------------------------------------
(* Requests and responses *)

NoReq == [op |-> "none", user |-> NoUser, asset |-> "none", version |-> 0,
          hash |-> "", filename |-> <<>>, mime |-> "", email |-> "e0", to_user |-> NoUser,
          canDownload |-> FALSE, token |-> 0,
          first |-> 0, q |-> "", after |-> 0, seen |-> <<>>]

NoRet == [op |-> "none", at |-> "none", user |-> NoUser, asset |-> "none",
          res |-> "none", status |-> "none", sha256 |-> NullHash,
          version |-> 0, filename |-> <<>>, token |-> 0,
          page |-> <<>>, hasNextPage |-> FALSE, endCursor |-> 0]

\* a thrown error (or a bare success) of operation op at call `at`
Ret(op, at, user, asset, res) ==
    [NoRet EXCEPT !.op = op, !.at = at, !.user = user, !.asset = asset,
                  !.res = res]

\* a returned asset row
RetRow(op, at, user, asset, row) ==
    [NoRet EXCEPT !.op = op, !.at = at, !.user = user, !.asset = asset,
                  !.res = "ok", !.status = row.status, !.sha256 = row.sha256,
                  !.version = row.version, !.filename = row.filename]

\* p has no request running and the last response has been delivered
Idle(p) == pc[p] = "idle" /\ ret = NoRet

\* p is about to issue the call named label
At(p, label) == pc[p] = label /\ ret = NoRet

\* p goes on to its next call
Goto(p, label, r) ==
    /\ pc' = [pc EXCEPT ![p] = label]
    /\ req' = [req EXCEPT ![p] = r]
    /\ ret' = NoRet

\* p's request ends with response r
Return(p, r) ==
    /\ pc' = [pc EXCEPT ![p] = "idle"]
    /\ req' = [req EXCEPT ![p] = NoReq]
    /\ ret' = r

----------------------------------------------------------------------------
Init ==
    /\ assets = Empty
    /\ tickets = Empty
    /\ shares = {}
    /\ audit = {}
    /\ created = {}
    /\ blobs = Empty
    /\ signedUploads = {}
    /\ urlAccessCache = Empty
    /\ minted = 0
    /\ pc = [p \in Procs |-> "idle"]
    /\ req = [p \in Procs |-> NoReq]
    /\ ret = NoRet
    /\ validations = [t \in TokenIds |-> 0]

cacheVars == <<urlAccessCache, minted, validations>>

storeVars == <<blobs, signedUploads>>

----------------------------------------------------------------------------
(* requireAuth: no user id, no access to anything *)

Ops == {"createUploadUrl", "finalizeUpload", "renameAsset", "deleteAsset",
        "shareAsset", "revokeShare", "getDownloadUrl", "validateDownloadToken",
        "myAssets", "listAssets", "me"}

\* a resolver whose requireAuth call is missing: it answers the anonymous caller
Unauthenticated_NoCheck(p) ==
    /\ Idle(p)
    /\ \E op \in Ops :
         Return(p, Ret(op, "auth", NoUser, "none", "ok"))
    /\ UNCHANGED <<ledger, created, storeVars, cacheVars>>

Unauthenticated(p) ==
    /\ Idle(p)
    /\ \E op \in Ops :
         Return(p, Ret(op, "auth", NoUser, "none", "UNAUTHENTICATED"))
    /\ UNCHANGED <<ledger, created, storeVars, cacheVars>>

----------------------------------------------------------------------------
(* createUploadUrl *)

NewAsset(userId, assetId, filename, mime) ==
    [owner_id |-> userId, filename |-> filename, mime |-> mime, size |-> 1024,
     storage_path |-> StoragePath(userId, assetId, filename),
     sha256 |-> NullHash, status |-> "draft", version |-> 1]

NewTicket(r) ==
    [user_id |-> r.user, storage_path |-> StoragePath(r.user, r.asset, r.filename),
     mime |-> r.mime, size |-> 1024, used |-> FALSE, nonce |-> r.asset,
     expires_at |-> TicketTTL]

\* the mime check and supabase.from("asset").insert(...)
CreateInsertAsset(p) ==
    /\ Idle(p)
    /\ \E u \in Uploaders, f \in Filenames, m \in Mimes :
         IF m \notin ALLOWED_MIMES
         THEN /\ Return(p, Ret("createUploadUrl", "mime", u, "none", "BAD_REQUEST"))
              /\ UNCHANGED <<assets, created>>
         ELSE \E a \in AssetIds \ created :
                /\ assets' = (a :> NewAsset(u, a, f, m)) @@ assets
                /\ created' = created \cup {a}
                /\ Goto(p, "cu_ticket",
                        [NoReq EXCEPT !.op = "createUploadUrl", !.user = u,
                                      !.asset = a, !.filename = f, !.mime = m])
    /\ UNCHANGED <<tickets, shares, audit, storeVars, cacheVars>>

\* supabase.from("upload_ticket").insert(...); asset_id references asset(id)
CreateInsertTicket(p) ==
    /\ At(p, "cu_ticket")
    /\ LET r == req[p] IN
       \E fail \in BOOLEAN :
         IF fail \/ r.asset \notin DOMAIN assets
         THEN /\ Return(p, Ret("createUploadUrl", "cu_ticket", r.user, r.asset, "ERROR"))
              /\ UNCHANGED tickets
         ELSE /\ tickets' = (r.asset :> NewTicket(r)) @@ tickets
              /\ Goto(p, "cu_sign", r)
    /\ UNCHANGED <<assets, shares, audit, created, storeVars, cacheVars>>

\* supabase.storage.from("private-media").createSignedUploadUrl(storagePath)
CreateSign(p) ==
    /\ At(p, "cu_sign")
    /\ LET r == req[p] IN
       \E fail \in BOOLEAN :
         IF fail
         THEN /\ Return(p, Ret("createUploadUrl", "cu_sign", r.user, r.asset, "ERROR"))
              /\ UNCHANGED signedUploads
         ELSE /\ signedUploads' = signedUploads \cup {r.asset}
              /\ Return(p, [Ret("createUploadUrl", "cu_sign", r.user, r.asset, "ok")
                               EXCEPT !.status = "draft", !.version = 1])
    /\ UNCHANGED <<ledger, created, blobs, cacheVars>>

----------------------------------------------------------------------------
(* finalizeUpload *)

\* the asset row after .update({ sha256: clientSha256, status, version })
FinalizedRow(row, clientSha256, version) ==
    [row EXCEPT !.sha256 = clientSha256,
                !.status = FinalizeStatus(clientSha256),
                !.version = version]

\* select the caller's unused ticket; none (or an error): INVALID_TICKET
FinalizeSelectTicket(p) ==
    /\ Idle(p)
    /\ \E u \in Users, a \in AssetIds, h \in ClientHashes, v \in Versions :
         IF ~LiveTicket(a, u)
         THEN Return(p, Ret("finalizeUpload", "ticket", u, a, "INVALID_TICKET"))
         ELSE Goto(p, "fin_mark",
                   [NoReq EXCEPT !.op = "finalizeUpload", !.user = u, !.asset = a,
                                 !.hash = h, !.version = v])
    /\ UNCHANGED <<ledger, created, storeVars, cacheVars>>

\* .update({ used: true }).eq("asset_id", assetId); its error is not looked at
FinalizeMarkUsed(p) ==
    /\ At(p, "fin_mark")
    /\ LET r == req[p] IN
       \E fail \in BOOLEAN :
         /\ tickets' = IF ~fail /\ r.asset \in DOMAIN tickets
                       THEN [tickets EXCEPT ![r.asset].used = TRUE]
                       ELSE tickets
         /\ Goto(p, "fin_asset", r)
    /\ UNCHANGED <<assets, shares, audit, created, storeVars, cacheVars>>

\* .update({...}).eq("id", assetId).select("*").single()
FinalizeUpdateAsset(p) ==
    /\ At(p, "fin_asset")
    /\ LET r == req[p] IN
       \E fail \in BOOLEAN :
         IF fail \/ r.asset \notin DOMAIN assets
         THEN /\ Return(p, Ret("finalizeUpload", "fin_asset", r.user, r.asset,
                               IF fail THEN "ERROR" ELSE "PGRST116"))
              /\ UNCHANGED assets
         ELSE LET row == FinalizedRow(assets[r.asset], r.hash, r.version) IN
              /\ assets' = [assets EXCEPT ![r.asset] = row]
              /\ Return(p, RetRow("finalizeUpload", "fin_asset", r.user, r.asset, row))
    /\ UNCHANGED <<tickets, shares, audit, created, storeVars, cacheVars>>

----------------------------------------------------------------------------
(* renameAsset: one conditional update *)

\* a rename that moves the object to a path made from the new filename
RenamedRow_NewPath(row, filename, version) ==
    [row EXCEPT !.filename = filename, !.version = version + 1,
                !.storage_path = <<@[1], @[2], sanitizeFilename(filename)>>]

RenamedRow(row, filename, version) ==
    [row EXCEPT !.filename = filename, !.version = version + 1]

RenameAsset(p) ==
    /\ Idle(p)
    /\ \E u \in Users, a \in AssetIds, f \in Filenames, v \in Versions :
         IF ~OwnedAtVersion(a, u, v)
         THEN /\ Return(p, Ret("renameAsset", "update", u, a, "CONFLICT"))
              /\ UNCHANGED assets
         ELSE LET row == RenamedRow(assets[a], f, v) IN
              /\ assets' = [assets EXCEPT ![a] = row]
              /\ Return(p, RetRow("renameAsset", "update", u, a, row))
    /\ UNCHANGED <<tickets, shares, audit, created, storeVars, cacheVars>>

----------------------------------------------------------------------------
(* deleteAsset *)

\* the delete with download_audit.asset_id declared without on delete cascade
DeleteCascade_KeepsAudit(assetId, userId) ==
    IF assetId \in DOMAIN assets /\ assets[assetId].owner_id = userId
    THEN <<Restrict(assets, DOMAIN assets \ {assetId}),
           Restrict(tickets, DOMAIN tickets \ {assetId}),
           {s \in shares : s.asset_id # assetId},
           audit>>
    ELSE <<assets, tickets, shares, audit>>

\* the ledger after delete from asset where id = assetId and owner_id = userId;
\* upload_ticket, asset_share and download_audit rows go with it (on delete cascade)
DeleteCascade(assetId, userId) ==
    IF assetId \in DOMAIN assets /\ assets[assetId].owner_id = userId
    THEN <<Restrict(assets, DOMAIN assets \ {assetId}),
           Restrict(tickets, DOMAIN tickets \ {assetId}),
           {s \in shares : s.asset_id # assetId},
           {r \in audit : r.asset_id # assetId}>>
    ELSE <<assets, tickets, shares, audit>>

\* the version-checked read; no row: fetchError is thrown as it is
DeleteSelect(p) ==
    /\ Idle(p)
    /\ \E u \in Users, a \in AssetIds, v \in Versions :
         IF ~OwnedAtVersion(a, u, v)
         THEN Return(p, Ret("deleteAsset", "select", u, a, "PGRST116"))
         ELSE Goto(p, "del_blob",
                   [NoReq EXCEPT !.op = "deleteAsset", !.user = u, !.asset = a,
                                 !.version = v])
    /\ UNCHANGED <<ledger, created, storeVars, cacheVars>>

\* supabase.storage.from("private-media").remove([asset.storage_path]);
\* its result is not looked at
DeleteRemoveBlob(p) ==
    /\ At(p, "del_blob")
    /\ LET r == req[p] IN
       \E fail \in BOOLEAN :
         /\ blobs' = IF fail THEN blobs ELSE Restrict(blobs, DOMAIN blobs \ {r.asset})
         /\ Goto(p, "del_row", r)
    /\ UNCHANGED <<ledger, created, signedUploads, cacheVars>>

\* .delete().eq("id", assetId).eq("owner_id", userId): no version in the filter
DeleteRow(p) ==
    /\ At(p, "del_row")
    /\ LET r == req[p] IN
       \E fail \in BOOLEAN :
         IF fail
         THEN /\ Return(p, Ret("deleteAsset", "del_row", r.user, r.asset, "ERROR"))
              /\ UNCHANGED ledger
         ELSE LET after == DeleteCascade(r.asset, r.user) IN
              /\ assets' = after[1]
              /\ tickets' = after[2]
              /\ shares' = after[3]
              /\ audit' = after[4]
              /\ Return(p, Ret("deleteAsset", "del_row", r.user, r.asset, "ok"))
    /\ UNCHANGED <<created, storeVars, cacheVars>>

----------------------------------------------------------------------------
(* shareAsset and revokeShare.  The users table never changes, so the       *)
(* lookup of toEmail is taken together with the version-checked read.       *)

ShareSelect(p) ==
    /\ Idle(p)
    /\ \E u \in Users, a \in AssetIds, e \in Emails, c \in BOOLEAN, v \in Versions :
         IF ~OwnedAtVersion(a, u, v)
         THEN Return(p, Ret("shareAsset", "select", u, a, "PGRST116"))
         ELSE IF e \notin DOMAIN UserByEmail
         THEN Return(p, Ret("shareAsset", "user", u, a, "NOT_FOUND"))
         ELSE Goto(p, "sh_upsert",
                   [NoReq EXCEPT !.op = "shareAsset", !.user = u, !.asset = a,
                                 !.version = v, !.email = e,
                                 !.to_user = UserByEmail[e], !.canDownload = c])
    /\ UNCHANGED <<ledger, created, storeVars, cacheVars>>

\* .upsert({ id: crypto.randomUUID(), asset_id, to_user, can_download, ... }):
\* the conflict target is the primary key id, which is fresh, so the row is
\* inserted; unique(asset_id, to_user) and the reference to asset(id) can fail it
ShareInsertable(assetId, toUser) ==
    /\ assetId \in DOMAIN assets
    /\ ~\E s \in shares : s.asset_id = assetId /\ s.to_user = toUser

ShareUpsert(p) ==
    /\ At(p, "sh_upsert")
    /\ LET r == req[p] IN
       \E fail \in BOOLEAN :
         IF fail \/ ~ShareInsertable(r.asset, r.to_user)
         THEN /\ Return(p, Ret("shareAsset", "sh_upsert", r.user, r.asset, "ERROR"))
              /\ UNCHANGED shares
         ELSE /\ shares' = shares \cup {[asset_id |-> r.asset, to_user |-> r.to_user,
                                         can_download |-> r.canDownload]}
              /\ Return(p, [Ret("shareAsset", "sh_upsert", r.user, r.asset, "ok")
                               EXCEPT !.version = r.version])
    /\ UNCHANGED <<assets, tickets, audit, created, storeVars, cacheVars>>

RevokeSelect(p) ==
    /\ Idle(p)
    /\ \E u \in Users, a \in AssetIds, e \in Emails, v \in Versions :
         IF ~OwnedAtVersion(a, u, v)
         THEN Return(p, Ret("revokeShare", "select", u, a, "PGRST116"))
         ELSE IF e \notin DOMAIN UserByEmail
         THEN Return(p, Ret("revokeShare", "user", u, a, "NOT_FOUND"))
         ELSE Goto(p, "rv_delete",
                   [NoReq EXCEPT !.op = "revokeShare", !.user = u, !.asset = a,
                                 !.version = v, !.email = e,
                                 !.to_user = UserByEmail[e]])
    /\ UNCHANGED <<ledger, created, storeVars, cacheVars>>

\* .delete().eq("asset_id", assetId).eq("to_user", targetUser.id)
RevokeDelete(p) ==
    /\ At(p, "rv_delete")
    /\ LET r == req[p] IN
       \E fail \in BOOLEAN :
         IF fail
         THEN /\ Return(p, Ret("revokeShare", "rv_delete", r.user, r.asset, "ERROR"))
              /\ UNCHANGED shares
         ELSE /\ shares' = {s \in shares :
                              ~(s.asset_id = r.asset /\ s.to_user = r.to_user)}
              /\ Return(p, [Ret("revokeShare", "rv_delete", r.user, r.asset, "ok")
                               EXCEPT !.version = r.version])
    /\ UNCHANGED <<assets, tickets, audit, created, storeVars, cacheVars>>

----------------------------------------------------------------------------
(* getDownloadUrl *)

\* requests that will mint a token if they go on
Minting == {p \in Procs : pc[p] \in {"gd_share", "gd_sign"}}

\* .from("asset").select("*").eq("id", assetId).single(): no row is an error
\* (PGRST116), thrown as it is, so `if (!asset)` is never reached with a null
GetUrlSelectAsset(p) ==
    /\ Idle(p)
    /\ minted + Cardinality(Minting) < MaxTokens
    /\ \E u \in Users, a \in AssetIds :
         IF a \notin DOMAIN assets
         THEN Return(p, Ret("getDownloadUrl", "asset", u, a, "PGRST116"))
         ELSE Goto(p, IF assets[a].owner_id # u THEN "gd_share" ELSE "gd_sign",
                   [NoReq EXCEPT !.op = "getDownloadUrl", !.user = u, !.asset = a])
    /\ UNCHANGED <<ledger, created, storeVars, cacheVars>>

GetUrlSelectShare(p) ==
    /\ At(p, "gd_share")
    /\ LET r == req[p] IN
         IF ~DownloadGrant(r.asset, r.user)
         THEN Return(p, Ret("getDownloadUrl", "gd_share", r.user, r.asset, "FORBIDDEN"))
         ELSE Goto(p, "gd_sign", r)
    /\ UNCHANGED <<ledger, created, storeVars, cacheVars>>

\* createSignedUrl(asset.storage_path, 90), then, with no await in between,
\* the token is made and stored: urlAccessCache.set(accessToken, {...})
GetUrlSign(p) ==
    /\ At(p, "gd_sign")
    /\ LET r == req[p] IN
       \E fail \in BOOLEAN :
         IF fail
         THEN /\ Return(p, Ret("getDownloadUrl", "gd_sign", r.user, r.asset, "ERROR"))
              /\ UNCHANGED <<urlAccessCache, minted>>
         ELSE LET accessToken == minted + 1 IN
              /\ minted' = accessToken
              /\ urlAccessCache' =
                   (accessToken :> [userId |-> r.user, assetId |-> r.asset,
                                    expiresAt |-> TokenTTL]) @@ urlAccessCache
              /\ Goto(p, "gd_audit", [r EXCEPT !.token = accessToken])
    /\ UNCHANGED <<ledger, created, storeVars, validations>>

\* await supabase.from("download_audit").insert({...}); its error is not
\* looked at; asset_id references asset(id)
GetUrlAudit(p) ==
    /\ At(p, "gd_audit")
    /\ LET r == req[p] IN
       \E fail \in BOOLEAN :
         /\ audit' = IF fail \/ r.asset \notin DOMAIN assets
                     THEN audit
                     ELSE audit \cup {[id |-> r.token, asset_id |-> r.asset,
                                       user_id |-> r.user]}
         /\ Return(p, [Ret("getDownloadUrl", "gd_audit", r.user, r.asset, "ok")
                          EXCEPT !.token = r.token])
    /\ UNCHANGED <<assets, tickets, shares, created, storeVars, cacheVars>>

----------------------------------------------------------------------------
(* validateDownloadToken and the sweep: no await inside, each runs as one   *)
(* step of the event loop                                                   *)

\* the lookup without the comparison of cached.userId with the caller
ValidateOutcome_NoUserCheck(userId, accessToken) ==
    IF accessToken \notin DOMAIN urlAccessCache THEN "absent"
    ELSE IF Expired(urlAccessCache[accessToken].expiresAt) THEN "expired"
    ELSE "valid"

\* the outcome of a lookup: where the resolver leaves, and with what
ValidateOutcome(userId, accessToken) ==
    IF accessToken \notin DOMAIN urlAccessCache THEN "absent"
    ELSE IF urlAccessCache[accessToken].userId # userId THEN "user"
    ELSE IF Expired(urlAccessCache[accessToken].expiresAt) THEN "expired"
    ELSE "valid"

\* the delete moved before the comparison of cached.userId with the caller
ValidateDeletes_OnRefusal(outcome) == outcome \in {"user", "expired", "valid"}

\* the resolver without the delete on its success path
ValidateDeletes_ExpiredOnly(outcome) == outcome = "expired"

\* urlAccessCache.delete(accessToken) where the resolver calls it
ValidateDeletes(outcome) == outcome \in {"expired", "valid"}

ValidateDownloadToken(p) ==
    /\ Idle(p)
    /\ \E u \in Users, t \in TokenIds :
         LET outcome == ValidateOutcome(u, t)
             a == IF t \in DOMAIN urlAccessCache
                  THEN urlAccessCache[t].assetId ELSE "none" IN
         /\ urlAccessCache' = IF ValidateDeletes(outcome)
                              THEN Restrict(urlAccessCache, DOMAIN urlAccessCache \ {t})
                              ELSE urlAccessCache
         /\ validations' = IF outcome = "valid"
                           THEN [validations EXCEPT ![t] = Count(@)]
                           ELSE validations
         /\ Return(p, [Ret("validateDownloadToken", outcome, u,
                           IF outcome = "valid" THEN a ELSE "none",
                           IF outcome = "valid" THEN "ok" ELSE "FORBIDDEN")
                          EXCEPT !.token = t])
    /\ UNCHANGED <<ledger, created, storeVars, minted>>

\* a callback that clears the whole map
Swept_All(cache) == Empty

\* a callback that deletes nothing
Swept_Nothing(cache) == cache

\* the entries the setInterval callback keeps
Swept(cache) == Restrict(cache, {t \in DOMAIN cache : ~Expired(cache[t].expiresAt)})

Sweep ==
    /\ ret = NoRet
    /\ urlAccessCache' = Swept(urlAccessCache)
    /\ UNCHANGED <<ledger, created, storeVars, minted, validations, pc, req, ret>>

----------------------------------------------------------------------------
(* The environment: the client's PUT to the signed upload URL, the caller   *)
(* receiving a response, and time                                           *)

PutBlob ==
    /\ ret = NoRet
    /\ \E a \in signedUploads \ DOMAIN blobs, h \in Hashes :
         blobs' = (a :> h) @@ blobs
    /\ UNCHANGED <<ledger, created, signedUploads, cacheVars, pc, req, ret>>

Respond ==
    /\ ret # NoRet
    /\ ret' = NoRet
    /\ UNCHANGED <<ledger, created, storeVars, cacheVars, pc, req>>

\* d units of time pass
Tick(d) ==
    /\ ret = NoRet
    /\ tickets' = [a \in DOMAIN tickets |->
                     [tickets[a] EXCEPT !.expires_at = AgeTicket(@, d)]]
    /\ urlAccessCache' = [t \in DOMAIN urlAccessCache |->
                     [urlAccessCache[t] EXCEPT !.expiresAt = Age(@, d)]]
    /\ UNCHANGED <<assets, shares, audit, created, storeVars, minted, validations,
                   pc, req, ret>>

\* more than a ticket lifetime passes
TickTicket == Tick(TicketTTL + 1)

\* one unit passes; shorter waits only tell when a token is live
TickUnit ==
    /\ \E t \in DOMAIN urlAccessCache : ~Expired(urlAccessCache[t].expiresAt)
    /\ Tick(1)

----------------------------------------------------------------------------
(* myAssets.  The table is listed as it stands: row i was created at time   *)
(* i, so created_at tells the rows apart.  A client pages through it: while  *)
(* a page says hasNextPage it asks again with after = that page's endCursor, *)
(* and req[p].seen is what it has been given so far, kept when the listing  *)
(* is over.  The null cursor and an absent argument are 0 and "".            *)

ListIds == 1..MaxRows

\* first arguments; 0 is an absent one
PageSizes == {0, 1, 2}

\* q arguments; "" is an absent one
Queries == {"", "b"}

\* args.first || 50
DefaultFirst == 50

PageLimit(first) == IF first # 0 THEN first ELSE DefaultFirst

\* .ilike("filename", `%${q}%`)
Ilike(filename, q) == \E i \in 1..Len(filename) : filename[i] = q

\* the rows the query selects: .eq("owner_id", userId), and, when given,
\* .ilike("filename", ...) and .gt("created_at", args.after)
Selected(userId, q, after) ==
    {a \in DOMAIN assets :
       /\ assets[a].owner_id = userId
       /\ q # "" => Ilike(assets[a].filename, q)
       /\ after # 0 => assets[a].created_at > after}

RECURSIVE OrderDesc(_)
\* .order("created_at", { ascending: false })
OrderDesc(S) ==
    IF S = {} THEN <<>>
    ELSE LET a == CHOOSE x \in S : \A y \in S : assets[y].created_at <= assets[x].created_at
         IN <<a>> \o OrderDesc(S \ {a})

\* .limit(n)  /  assets.slice(0, n)
Take(s, n) == SubSeq(s, 1, IF Len(s) < n THEN Len(s) ELSE n)

\* what the query returns: limit + 1 rows at most
Fetched(userId, first, q, after) ==
    Take(OrderDesc(Selected(userId, q, after)), PageLimit(first) + 1)

HasNextPage(userId, first, q, after) ==
    Len(Fetched(userId, first, q, after)) > PageLimit(first)

Nodes(userId, first, q, after) ==
    Take(Fetched(userId, first, q, after), PageLimit(first))

\* nodes.length > 0 ? nodes[nodes.length - 1].created_at : null
EndCursor(nodes) == IF Len(nodes) > 0 THEN assets[nodes[Len(nodes)]].created_at ELSE 0

\* one myAssets call: the first page of a listing, or the page after the cursor
MyAssets(p) ==
    /\ ret = NoRet
    /\ pc[p] \in {"idle", "paging"}
    /\ \E u \in Users, first \in PageSizes, q \in Queries :
         LET r == IF pc[p] = "paging" THEN req[p]
                  ELSE [NoReq EXCEPT !.op = "myAssets", !.user = u,
                                     !.first = first, !.q = q]
             nodes == Nodes(r.user, r.first, r.q, r.after)
             more == HasNextPage(r.user, r.first, r.q, r.after)
         IN /\ pc' = [pc EXCEPT ![p] = IF more THEN "paging" ELSE "idle"]
            /\ req' = [req EXCEPT ![p] = [r EXCEPT !.after = EndCursor(nodes),
                                                  !.seen = r.seen \o nodes]]
            /\ ret' = [Ret("myAssets", "page", r.user, "none", "ok")
                          EXCEPT !.page = nodes, !.hasNextPage = more,
                                 !.endCursor = EndCursor(nodes)]
    /\ UNCHANGED <<ledger, created, storeVars, cacheVars>>

\* a listed table: some rows of both users
ListedRow(i, u, f) ==
    [owner_id |-> u, filename |-> f, mime |-> "image/png", size |-> 1024,
     storage_path |-> StoragePath(u, i, f), sha256 |-> NullHash,
     status |-> "draft", version |-> 1, created_at |-> i]

InitList ==
    /\ \E S \in SUBSET ListIds :
         \E owner \in [S -> Users], name \in [S -> Filenames] :
           assets = [i \in S |-> ListedRow(i, owner[i], name[i])]
    /\ tickets = Empty
    /\ shares = {}
    /\ audit = {}
    /\ created = {}
    /\ blobs = Empty
    /\ signedUploads = {}
    /\ urlAccessCache = Empty
    /\ minted = 0
    /\ pc = [p \in Procs |-> "idle"]
    /\ req = [p \in Procs |-> NoReq]
    /\ ret = NoRet
    /\ validations = [t \in TokenIds |-> 0]

NextList ==
    \/ \E p \in Procs : MyAssets(p)
    \/ Respond

SpecList == InitList /\ [][NextList]_vars

----------------------------------------------------------------------------
Upload(p) ==
    \/ CreateInsertAsset(p)
    \/ CreateInsertTicket(p)
    \/ CreateSign(p)

Finalize(p) ==
    \/ FinalizeSelectTicket(p)
    \/ FinalizeMarkUsed(p)
    \/ FinalizeUpdateAsset(p)

Delete(p) ==
    \/ DeleteSelect(p)
    \/ DeleteRemoveBlob(p)
    \/ DeleteRow(p)

NextUpload ==
    \/ \E p \in Procs : Upload(p) \/ Finalize(p) \/ RenameAsset(p) \/ Delete(p)
    \/ PutBlob
    \/ TickTicket
    \/ Respond

SpecUpload == Init /\ [][NextUpload]_vars

Share(p) ==
    \/ ShareSelect(p)
    \/ ShareUpsert(p)
    \/ RevokeSelect(p)
    \/ RevokeDelete(p)

GetUrl(p) ==
    \/ GetUrlSelectAsset(p)
    \/ GetUrlSelectShare(p)
    \/ GetUrlSign(p)
    \/ GetUrlAudit(p)

NextAccess ==
    \/ \E p \in Procs : Upload(p) \/ Share(p) \/ GetUrl(p) \/ ValidateDownloadToken(p)
    \/ Sweep
    \/ TickUnit
    \/ Respond

SpecAccess == Init /\ [][NextAccess]_vars

\* anonymous requests among the uploads, finalizes and renames of signed-in users
NextAuth ==
    \/ \E p \in Procs : \/ Unauthenticated(p)
                        \/ Upload(p) \/ Finalize(p) \/ RenameAsset(p)
    \/ PutBlob
    \/ Respond

SpecAuth == Init /\ [][NextAuth]_vars

\* the token cache on its own: the owner's download URLs, validations, the
\* sweep and time, with no grants
NextCache ==
    \/ \E p \in Procs : Upload(p) \/ GetUrl(p) \/ ValidateDownloadToken(p)
    \/ Sweep
    \/ TickUnit
    \/ Respond

\* setInterval(..., 60000) calls the sweep every minute whatever the requests
\* are doing, and every response reaches its caller
SpecSweep == Init /\ [][NextCache]_vars /\ WF_vars(Respond) /\ SF_vars(Sweep)

\* an asset with grants and downloads that is deleted, at any point of any
\* other request
NextCascade ==
    \/ \E p \in Procs : Upload(p) \/ Share(p) \/ GetUrl(p) \/ Delete(p)
    \/ Respond

SpecCascade == Init /\ [][NextCascade]_vars

\* the owner's asset with grants on it, and every user's attempts to finalize,
\* rename and delete it
NextOwner ==
    \/ \E p \in Procs : \/ Upload(p) \/ Share(p)
                        \/ Finalize(p) \/ RenameAsset(p) \/ Delete(p)
    \/ Respond

SpecOwner == Init /\ [][NextOwner]_vars

\* the whole service: every resolver, the sweep and the environment.  The
\* properties below are checked on its two parts: SpecUpload (the asset
\* lifecycle, which never touches grants or tokens) and SpecAccess (grants,
\* download URLs and tokens, over an asset that is uploaded and left alone)
Next ==
    \/ \E p \in Procs : \/ Unauthenticated(p)
                        \/ Upload(p) \/ Finalize(p) \/ RenameAsset(p) \/ Delete(p)
                        \/ Share(p) \/ GetUrl(p) \/ ValidateDownloadToken(p)
    \/ PutBlob
    \/ Sweep
    \/ TickTicket
    \/ TickUnit
    \/ Respond

Spec == Init /\ [][Next]_vars

----------------------------------------------------------------------------
(* Steps, as the properties below see them *)

\* this step is p's last: p was at `label` and its request has returned
Returns(p, label) == pc[p] = label /\ pc'[p] = "idle" /\ ret' # NoRet

\* this step is the arrival of a request of p that goes on to `label`
Proceeds(p, label) == pc[p] = "idle" /\ pc'[p] = label

----------------------------------------------------------------------------
(* C1 .. C10 *)

\* C1: of two concurrent finalizeUpload calls for the same asset, only one gets
\* past the step that marks the ticket used: never are two of them both past
\* it, each about to write the asset.
C1_OneFinalizePastMark ==
    \A p, q \in Procs :
      (p # q /\ pc[p] = "fin_asset" /\ pc[q] = "fin_asset")
        => req[p].asset # req[q].asset

\* a request that has passed every check its resolver makes on the asset's
\* version and ownership, and has not returned yet
Accepted(p) == pc[p] \in {"fin_asset", "del_blob", "del_row", "sh_upsert", "rv_delete"}

\* C2: two concurrent mutating operations on one asset with the same
\* expectedVersion are never both accepted.
C2_OneAcceptedPerVersion ==
    \A p, q \in Procs :
      (p # q /\ Accepted(p) /\ Accepted(q) /\ req[p].asset = req[q].asset)
        => req[p].version # req[q].version

\* C3: an asset's version starts at 1 and a step either leaves it or adds 1 to
\* it: it never decreases, skips a value or takes a number the caller chose.
C3_VersionStepsByOne ==
    [][\A a \in DOMAIN assets' :
         IF a \in DOMAIN assets
         THEN assets'[a].version \in {assets[a].version, assets[a].version + 1}
         ELSE assets'[a].version = 1]_vars

\* C4: a finalizeUpload call that arrives after the ticket's expires_at fails
\* with BAD_REQUEST and leaves the ticket unused and the asset as it was.
C4_ExpiredTicketRejected ==
    [][\A p \in Procs, a \in DOMAIN tickets :
         ( /\ Expired(tickets[a].expires_at)
           /\ tickets[a].used = FALSE
           /\ \/ Proceeds(p, "fin_mark") /\ req'[p].asset = a
              \/ /\ ret'.op = "finalizeUpload" /\ ret'.at = "ticket"
                 /\ ret'.asset = a /\ ret'.user = tickets[a].user_id )
         => /\ ret'.res = "BAD_REQUEST"
            /\ UNCHANGED <<tickets, assets>>]_vars

\* C5: a finalizeUpload call by the ticket's user that finds the ticket used
\* and the asset ready or corrupt returns that asset, not an error.
C5_FinalizeIdempotent ==
    ( /\ ret.op = "finalizeUpload"
      /\ ret.at = "ticket"
      /\ ret.asset \in DOMAIN tickets
      /\ ret.asset \in DOMAIN assets
      /\ tickets[ret.asset].used
      /\ tickets[ret.asset].user_id = ret.user
      /\ assets[ret.asset].status \in {"ready", "corrupt"} )
    => /\ ret.res = "ok"
       /\ ret.status = assets[ret.asset].status

\* C6: when a finalizeUpload whose claimed hash differs from the digest of the
\* stored bytes returns a result, the asset is corrupt and its sha256 is the
\* digest of the stored bytes, not the claimed value.
C6_MismatchMarksCorrupt ==
    [][\A p \in Procs :
         ( /\ Returns(p, "fin_asset")
           /\ ret'.res = "ok"
           /\ req[p].asset \in DOMAIN blobs
           /\ req[p].hash # blobs[req[p].asset] )
         => /\ assets'[req[p].asset].status = "corrupt"
            /\ assets'[req[p].asset].sha256 = blobs[req[p].asset]]_vars

\* C7: a finalizeUpload call that finds its caller's unused ticket is not
\* turned away at the ticket check, and when its claimed hash equals the digest
\* of the stored bytes and it returns a result, the asset is ready with that
\* hash and the returned asset says so.
C7_MatchMarksReady ==
    [][\A p \in Procs :
         /\ ( /\ ret'.op = "finalizeUpload"
              /\ ret'.at = "ticket"
              /\ ret'.asset \in DOMAIN tickets
              /\ tickets[ret'.asset].user_id = ret'.user
              /\ tickets[ret'.asset].used = FALSE )
            => ret'.res # "INVALID_TICKET"
         /\ ( /\ Returns(p, "fin_asset")
              /\ ret'.res = "ok"
              /\ req[p].asset \in DOMAIN blobs
              /\ req[p].hash = blobs[req[p].asset] )
            => /\ assets'[req[p].asset].status = "ready"
               /\ assets'[req[p].asset].sha256 = req[p].hash
               /\ ret'.status = "ready"
               /\ ret'.sha256 = req[p].hash]_vars

\* a finalizeUpload whose claimed hash is the digest of the stored bytes has
\* returned the asset, ready
C7_Witness ==
    /\ ret.op = "finalizeUpload"
    /\ ret.res = "ok"
    /\ ret.asset \in DOMAIN blobs
    /\ ret.asset \in DOMAIN assets
    /\ ret.sha256 = blobs[ret.asset]
    /\ assets[ret.asset].status = "ready"

\* C8: no access token is validated successfully more than once.
C8_ValidateAtMostOnce ==
    \A t \in TokenIds : validations[t] <= 1

\* a token that was validated once has been presented again and refused
C8_Witness ==
    /\ ret.op = "validateDownloadToken"
    /\ ret.res = "FORBIDDEN"
    /\ ret.token <= minted
    /\ validations[ret.token] = 1

\* C9: getDownloadUrl goes on to sign a URL only for the owner or for a user
\* with a can_download grant at the time of the check, fails with FORBIDDEN
\* otherwise, and fails with NOT_FOUND for an asset id that does not exist.
C9_DownloadAuthorized ==
    [][\A p \in Procs :
         /\ Proceeds(p, "gd_sign") => assets[req'[p].asset].owner_id = req'[p].user
         /\ (pc[p] = "gd_share" /\ pc'[p] = "gd_sign")
              => [asset_id |-> req[p].asset, to_user |-> req[p].user,
                  can_download |-> TRUE] \in shares
         /\ Returns(p, "gd_share") => ret'.res = "FORBIDDEN"
         /\ ( /\ ret'.op = "getDownloadUrl"
              /\ ret'.at = "asset"
              /\ ret'.asset \notin DOMAIN assets )
            => ret'.res = "NOT_FOUND"]_vars

\* C10: an accepted shareAsset leaves the grant it was asked for, and a user
\* who holds a can_download grant is not turned away by getDownloadUrl's
\* authorization check.
C10_ShareThenDownload ==
    [][\A p \in Procs :
         /\ (Returns(p, "sh_upsert") /\ ret'.res = "ok")
              => [asset_id |-> req[p].asset, to_user |-> req[p].to_user,
                  can_download |-> req[p].canDownload] \in shares'
         /\ ( /\ pc[p] = "gd_share"
              /\ pc'[p] # "gd_share"
              /\ [asset_id |-> req[p].asset, to_user |-> req[p].user,
                  can_download |-> TRUE] \in shares )
            => pc'[p] = "gd_sign"]_vars

\* a user who is not the owner has been given a download URL
C10_Witness ==
    /\ ret.op = "getDownloadUrl"
    /\ ret.res = "ok"
    /\ ret.asset \in DOMAIN assets
    /\ assets[ret.asset].owner_id # ret.user
    /\ [asset_id |-> ret.asset, to_user |-> ret.user, can_download |-> TRUE] \in shares

----------------------------------------------------------------------------
(* C11 .. C20 *)

\* C11: a renameAsset by the owner either succeeds, storing the new filename
\* and returning the version it found plus one, or fails with VERSION_CONFLICT
\* and leaves the asset as it was.
C11_RenameVersionGuard ==
    [][\A a \in DOMAIN assets :
         ( /\ ret'.op = "renameAsset"
           /\ ret'.asset = a
           /\ ret'.user = assets[a].owner_id )
         => IF ret'.res = "ok"
            THEN /\ assets'[a].version = assets[a].version + 1
                 /\ ret'.version = assets[a].version + 1
                 /\ assets'[a].filename = ret'.filename
            ELSE /\ ret'.res = "VERSION_CONFLICT"
                 /\ UNCHANGED assets]_vars

\* C12: outside a createUploadUrl that is between its two inserts, every
\* draft asset has its ticket row and every ticket row has its asset: an
\* issuance that fails leaves neither without the other.
C12_IssuanceAtomic ==
    /\ \A a \in DOMAIN tickets : a \in DOMAIN assets
    /\ \A a \in DOMAIN assets :
         ( /\ assets[a].status = "draft"
           /\ ~\E p \in Procs : pc[p] = "cu_ticket" /\ req[p].asset = a )
         => a \in DOMAIN tickets

\* C13: a request with no user id is answered UNAUTHENTICATED by a step that
\* touches neither the ledger, the blob store nor the token cache, whatever
\* the operation; every request that goes on to a call has a user id.
C13_UnauthenticatedFirst ==
    [][/\ (ret' # NoRet /\ ret'.user = NoUser)
            => /\ ret'.res = "UNAUTHENTICATED"
               /\ UNCHANGED <<ledger, created, storeVars, cacheVars>>
       /\ \A p \in Procs : pc'[p] # "idle" => req'[p].user \in Users]_vars

\* an anonymous deleteAsset has been turned away while an asset is there
C13_Witness ==
    /\ ret.op = "deleteAsset"
    /\ ret.user = NoUser
    /\ ret.res = "UNAUTHENTICATED"
    /\ assets # Empty

\* C14: validateDownloadToken called by a user other than the one the token
\* was minted for fails with FORBIDDEN and returns no asset id; a validation
\* succeeds only for the cached user, with the cached asset id.
C14_OtherUserForbidden ==
    [][\A t \in TokenIds :
         (ret'.op = "validateDownloadToken" /\ ret'.token = t)
         => /\ ( t \in DOMAIN urlAccessCache
                 /\ urlAccessCache[t].userId # ret'.user )
               => (ret'.res = "FORBIDDEN" /\ ret'.asset = "none")
            /\ ret'.res = "ok"
               => /\ t \in DOMAIN urlAccessCache
                  /\ urlAccessCache[t].userId = ret'.user
                  /\ urlAccessCache[t].assetId = ret'.asset]_vars

\* a user has presented a live token minted for somebody else and was refused
C14_Witness ==
    /\ ret.op = "validateDownloadToken"
    /\ ret.res = "FORBIDDEN"
    /\ ret.token \in DOMAIN urlAccessCache
    /\ urlAccessCache[ret.token].userId # ret.user
    /\ ~Expired(urlAccessCache[ret.token].expiresAt)

\* C15: a validateDownloadToken call made after the token's expiresAt fails
\* with FORBIDDEN, whether the sweep has removed the entry or not, and the
\* entry is absent from the cache afterwards.
C15_ExpiredRefusedAndGone ==
    [][\A t \in TokenIds :
         ( /\ ret'.op = "validateDownloadToken"
           /\ ret'.token = t
           /\ \/ t \notin DOMAIN urlAccessCache
              \/ urlAccessCache[t].expiresAt < 0 )
         => /\ ret'.res = "FORBIDDEN"
            /\ t \notin DOMAIN urlAccessCache']_vars

\* C15, amended: such a call fails with FORBIDDEN, and when the caller is the
\* user the token was minted for the entry is absent from the cache afterwards.
C15_ExpiredRefused ==
    [][\A t \in TokenIds :
         ( /\ ret'.op = "validateDownloadToken"
           /\ ret'.token = t
           /\ \/ t \notin DOMAIN urlAccessCache
              \/ urlAccessCache[t].expiresAt < 0 )
         => /\ ret'.res = "FORBIDDEN"
            /\ ( t \notin DOMAIN urlAccessCache
                 \/ urlAccessCache[t].userId = ret'.user )
               => t \notin DOMAIN urlAccessCache']_vars

\* the token's user has presented it after its expiry, before any sweep, and
\* was refused
C15_Witness ==
    /\ ret.op = "validateDownloadToken"
    /\ ret.at = "expired"
    /\ ret.res = "FORBIDDEN"
    /\ ret.token \notin DOMAIN urlAccessCache

\* C16: every asset whose status is ready has a sha256 that is neither null
\* nor empty.
C16_ReadyHasHash ==
    \A a \in DOMAIN assets :
      assets[a].status = "ready" => assets[a].sha256 \notin {NullHash, ""}

\* an asset has been made ready
C16_Witness ==
    \E a \in DOMAIN assets :
      assets[a].status = "ready" /\ assets[a].sha256 \in ClientHashes

\* C17: the status is always draft, ready or corrupt, and once an asset is
\* ready or corrupt no step changes its status or its sha256 while the row
\* exists.
C17_TerminalStatusFinal ==
    [][/\ \A a \in DOMAIN assets' :
            assets'[a].status \in {"draft", "ready", "corrupt"}
       /\ \A a \in DOMAIN assets \cap DOMAIN assets' :
            assets[a].status \in {"ready", "corrupt"}
            => /\ assets'[a].status = assets[a].status
               /\ assets'[a].sha256 = assets[a].sha256]_vars

\* C18: a getDownloadUrl call that returns a URL has appended one
\* download_audit row for (asset, caller) by the time it returns, and no
\* other step of a getDownloadUrl call adds or removes an audit row.
C18_OneAuditRowPerUrl ==
    [][\A p \in Procs :
         req[p].op = "getDownloadUrl"
         => IF Returns(p, "gd_audit") /\ ret'.res = "ok"
            THEN \E row \in audit' \ audit :
                   /\ row.asset_id = req[p].asset
                   /\ row.user_id = req[p].user
                   /\ audit' = audit \cup {row}
            ELSE pc'[p] # pc[p] => audit' = audit]_vars

\* C19: createUploadUrl with a mime outside image/jpeg, image/png, image/webp,
\* application/pdf is rejected and changes nothing; with a mime on the list
\* its first insert makes a draft asset at version 1 and its second an
\* unused ticket.
C19_MimeAllowList ==
    [][\A p \in Procs :
         /\ (ret'.op = "createUploadUrl" /\ ret'.at = "mime")
              => /\ ret'.res = "BAD_REQUEST"
                 /\ UNCHANGED <<ledger, created, storeVars>>
         /\ Proceeds(p, "cu_ticket")
              => /\ req'[p].mime \in {"image/jpeg", "image/png", "image/webp",
                                      "application/pdf"}
                 /\ req'[p].asset \notin DOMAIN assets
                 /\ assets'[req'[p].asset].status = "draft"
                 /\ assets'[req'[p].asset].version = 1
                 /\ assets'[req'[p].asset].mime = req'[p].mime
         /\ (pc[p] = "cu_ticket" /\ pc'[p] = "cu_sign")
              => /\ req[p].asset \notin DOMAIN tickets
                 /\ tickets'[req[p].asset].used = FALSE
         /\ \A a \in DOMAIN assets' \ DOMAIN assets :
              assets'[a].mime \in {"image/jpeg", "image/png", "image/webp",
                                   "application/pdf"}]_vars

\* a text/html upload has been turned away and an image/png one has its
\* draft asset and its unused ticket
C19_Witness ==
    /\ ret.op = "createUploadUrl"
    /\ ret.res = "BAD_REQUEST"
    /\ \E a \in DOMAIN assets \cap DOMAIN tickets :
         /\ assets[a].status = "draft"
         /\ assets[a].mime = "image/png"
         /\ tickets[a].used = FALSE

\* C20: a deleteAsset call whose expectedVersion is not the asset's version,
\* or whose caller is not the owner, fails at its read and removes neither
\* blob nor row; an accepted one issues the blob removal first and the row
\* delete after it, and nothing else removes a blob or a row.
C20_DeleteGuardedBlobFirst ==
    [][/\ (ret'.op = "deleteAsset" /\ ret'.at = "select")
            => /\ ret'.res # "ok"
               /\ UNCHANGED <<ledger, blobs>>
       /\ \A p \in Procs :
            Proceeds(p, "del_blob")
            => /\ req'[p].asset \in DOMAIN assets
               /\ assets[req'[p].asset].owner_id = req'[p].user
               /\ assets[req'[p].asset].version = req'[p].version
               /\ UNCHANGED <<ledger, blobs>>
       /\ \A a \in DOMAIN blobs \ DOMAIN blobs' :
            \E p \in Procs : /\ pc[p] = "del_blob" /\ pc'[p] = "del_row"
                             /\ req[p].asset = a
                             /\ UNCHANGED ledger
       /\ \A a \in DOMAIN assets \ DOMAIN assets' :
            \E p \in Procs : /\ Returns(p, "del_row")
                             /\ req[p].asset = a
                             /\ req[p].user = assets[a].owner_id
                             /\ UNCHANGED blobs]_vars

\* a deleteAsset by a user who is not the owner has been refused with the blob
\* and the row still there
C20_Witness ==
    /\ ret.op = "deleteAsset"
    /\ ret.res # "ok"
    /\ ret.asset \in DOMAIN assets
    /\ ret.asset \in DOMAIN blobs
    /\ assets[ret.asset].owner_id # ret.user

----------------------------------------------------------------------------
(* C21 .. C30 *)

\* C21: a shareAsset or revokeShare by a user who is not the asset's owner
\* fails at its read and leaves asset_share as it was; only a request of the
\* owner ever adds or removes a grant of the asset.
C21_OnlyOwnerManagesGrants ==
    [][/\ \A p \in Procs :
            (Proceeds(p, "sh_upsert") \/ Proceeds(p, "rv_delete"))
            => /\ req'[p].asset \in DOMAIN assets
               /\ assets[req'[p].asset].owner_id = req'[p].user
               /\ UNCHANGED shares
       /\ ( /\ ret'.op \in {"shareAsset", "revokeShare"}
            /\ ret'.at \in {"select", "user"} )
          => (ret'.res # "ok" /\ UNCHANGED shares)
       /\ \A s \in (shares' \ shares) \cup (shares \ shares') :
            \E p \in Procs :
              /\ Returns(p, "sh_upsert") \/ Returns(p, "rv_delete")
              /\ req[p].asset = s.asset_id
              /\ s.asset_id \in DOMAIN assets
                   => assets[s.asset_id].owner_id = req[p].user]_vars

\* a user who does not own the asset asked to share or revoke and was refused,
\* with a grant of the asset in place
C21_Witness ==
    /\ ret.op \in {"shareAsset", "revokeShare"}
    /\ ret.at = "select"
    /\ ret.res # "ok"
    /\ ret.asset \in DOMAIN assets
    /\ assets[ret.asset].owner_id # ret.user
    /\ \E s \in shares : s.asset_id = ret.asset

\* the caller's rows that match q, newest first
C22_Expected(userId, q) == OrderDesc(Selected(userId, q, 0))

\* C22: a page of myAssets adds at most pageSize rows to what the client has;
\* what it has is always the newest of the caller's rows, in order, none
\* repeated or skipped; and the page says hasNextPage exactly when rows remain.
C22_PagesCoverOnce ==
    [][\A p \in Procs :
         (req'[p] # req[p] /\ req'[p].op = "myAssets")
         => LET r == req'[p]
                prev == IF pc[p] = "paging" THEN req[p].seen ELSE <<>>
                all == C22_Expected(r.user, r.q)
            IN /\ Len(r.seen) - Len(prev) <= PageLimit(r.first)
               /\ r.seen = Take(all, Len(r.seen))
               /\ ret'.hasNextPage <=> Len(r.seen) < Len(all)]_vars

\* C23: the marking step of a finalizeUpload leaves the ticket used, whatever
\* hash was claimed, and a ticket lets one finalizeUpload through: none passes
\* the ticket check while another that passed it for the same asset is running.
C23_TicketConsumedOnce ==
    [][\A p \in Procs :
         /\ ( /\ pc[p] = "fin_mark"
              /\ pc'[p] = "fin_asset"
              /\ req[p].asset \in DOMAIN tickets' )
            => tickets'[req[p].asset].used = TRUE
         /\ Proceeds(p, "fin_mark")
            => \A q \in Procs \ {p} :
                 pc[q] \in {"fin_mark", "fin_asset"} => req[q].asset # req'[p].asset]_vars

\* C24: finalizeUpload writes the asset only when the stored version is the
\* expectedVersion it was given.
C24_FinalizeVersionGuarded ==
    [][\A p \in Procs :
         ( /\ Returns(p, "fin_asset")
           /\ req[p].asset \in DOMAIN assets
           /\ assets' # assets )
         => assets[req[p].asset].version = req[p].version]_vars

\* C25: deleteAsset removes the row, and the blob, only of an asset whose
\* version is still the expectedVersion it was given.
C25_DeleteVersionGuarded ==
    [][\A p \in Procs :
         /\ ( /\ Returns(p, "del_row")
              /\ req[p].asset \in DOMAIN assets
              /\ req[p].asset \notin DOMAIN assets' )
            => assets[req[p].asset].version = req[p].version
         /\ ( /\ pc[p] = "del_blob"
              /\ pc'[p] = "del_row"
              /\ blobs' # blobs
              /\ req[p].asset \in DOMAIN assets )
            => assets[req[p].asset].version = req[p].version]_vars

\* C27: a ticket starts unused, used never goes back to false, and no
\* finalizeUpload issues the write of used to a ticket that is already used.
C27_UsedWrittenOnce ==
    [][/\ \A a \in DOMAIN tickets' \ DOMAIN tickets : tickets'[a].used = FALSE
       /\ \A a \in DOMAIN tickets \cap DOMAIN tickets' :
            tickets[a].used => tickets'[a].used
       /\ \A p \in Procs :
            ( /\ pc[p] = "fin_mark"
              /\ pc'[p] = "fin_asset"
              /\ req[p].asset \in DOMAIN tickets )
            => tickets[req[p].asset].used = FALSE]_vars

\* C26: shareAsset and revokeShare by the owner with an expectedVersion that
\* is not the asset's version fail with VERSION_CONFLICT and change no grant;
\* an accepted one leaves the asset at expectedVersion + 1.
C26_ShareRevokeCas ==
    [][/\ ( /\ ret'.op \in {"shareAsset", "revokeShare"}
            /\ ret'.at = "select"
            /\ ret'.asset \in DOMAIN assets
            /\ assets[ret'.asset].owner_id = ret'.user )
          => (ret'.res = "VERSION_CONFLICT" /\ UNCHANGED shares)
       /\ \A p \in Procs :
            ( /\ Returns(p, "sh_upsert") \/ Returns(p, "rv_delete")
              /\ ret'.res = "ok"
              /\ req[p].asset \in DOMAIN assets' )
            => assets'[req[p].asset].version = req[p].version + 1]_vars

\* C28: with the sweep running again and again, an entry of the token cache
\* whose expiresAt has passed is eventually out of the cache, whether or not
\* validateDownloadToken is ever called for it.
C28_ExpiredEventuallySwept ==
    \A t \in TokenIds :
        ( /\ t \in DOMAIN urlAccessCache
          /\ Expired(urlAccessCache[t].expiresAt) )
        ~> (t \notin DOMAIN urlAccessCache)

\* the token of a getDownloadUrl that is still writing its audit row is out of
\* the cache while the other request has been busy with an upload since before
\* the token was made: nobody validated it, the sweep removed it
C28_Witness ==
    \E p \in Procs :
        /\ pc[p] = "gd_audit"
        /\ req[p].token \notin DOMAIN urlAccessCache
        /\ validations[req[p].token] = 0
        /\ \A q \in Procs \ {p} : pc[q] = "cu_sign"

\* C29: the cache steps are whole steps.  A validation that succeeds found
\* the entry in the cache, unexpired and never validated before, and leaves
\* it out of the cache in the same step, so neither a sweep nor another
\* validation comes between its lookup and its delete; an entry that enters
\* the cache is the one getDownloadUrl has just made under a new token, so an
\* entry the sweep has removed is never there again.
C29_CacheStepsAtomic ==
    [][/\ \A t \in TokenIds :
            ( /\ ret'.op = "validateDownloadToken"
              /\ ret'.token = t
              /\ ret'.res = "ok" )
            => /\ t \in DOMAIN urlAccessCache
               /\ ~Expired(urlAccessCache[t].expiresAt)
               /\ validations[t] = 0
               /\ t \notin DOMAIN urlAccessCache'
       /\ \A t \in DOMAIN urlAccessCache' \ DOMAIN urlAccessCache :
            /\ t = minted + 1
            /\ minted' = t
            /\ \E p \in Procs : pc[p] = "gd_sign" /\ pc'[p] = "gd_audit"
                                /\ req'[p].token = t]_vars

\* a token that nobody validated is out of the cache, and its user's
\* validation, arriving after, has found nothing
C29_Witness ==
    /\ ret.op = "validateDownloadToken"
    /\ ret.at = "absent"
    /\ ret.res = "FORBIDDEN"
    /\ ret.token <= minted
    /\ validations[ret.token] = 0
    /\ \E r \in audit : r.id = ret.token /\ r.user_id = ret.user

\* C30: after every step every ticket, grant and audit row refers to an asset
\* that exists, so the rows of a deleted asset go with it; and an audit row
\* that was there is there unchanged after the step unless its asset was
\* deleted in that step.
C30_CascadeAndAuditKept ==
    [][/\ \A a \in DOMAIN tickets' : a \in DOMAIN assets'
       /\ \A s \in shares' : s.asset_id \in DOMAIN assets'
       /\ \A r \in audit' : r.asset_id \in DOMAIN assets'
       /\ \A r \in audit \ audit' :
            r.asset_id \in DOMAIN assets \ DOMAIN assets']_vars

\* an asset that another user was given a download URL for has been deleted by
\* its owner, and no ticket, grant or audit row is left
C30_Witness ==
    /\ ret.op = "deleteAsset"
    /\ ret.res = "ok"
    /\ ret.asset \notin DOMAIN assets
    /\ tickets = Empty /\ shares = {} /\ audit = {}
    /\ \E t \in DOMAIN urlAccessCache :
         /\ urlAccessCache[t].assetId = ret.asset
         /\ urlAccessCache[t].userId # ret.user

----------------------------------------------------------------------------
(* C31 .. C40 *)

\* C31: there is never more than one grant for an asset and a recipient, and
\* a shareAsset that reaches its write for a recipient who holds a grant
\* succeeds and leaves that one grant with the can_download it was given.
C31_OneGrantUpdatedInPlace ==
    [][/\ \A s1, s2 \in shares' :
            (s1.asset_id = s2.asset_id /\ s1.to_user = s2.to_user) => s1 = s2
       /\ \A p \in Procs :
            ( /\ Returns(p, "sh_upsert")
              /\ req[p].asset \in DOMAIN assets
              /\ \E s \in shares : /\ s.asset_id = req[p].asset
                                   /\ s.to_user = req[p].to_user )
            => /\ ret'.res = "ok"
               /\ [asset_id |-> req[p].asset, to_user |-> req[p].to_user,
                   can_download |-> req[p].canDownload] \in shares']_vars

C33_OnlyOwnerChangesAsset ==
    [][\A a \in DOMAIN assets :
         /\ a \in DOMAIN assets' => assets'[a].owner_id = assets[a].owner_id
         /\ (a \notin DOMAIN assets' \/ assets'[a] # assets[a])
            => /\ ret'.op \in {"finalizeUpload", "renameAsset", "deleteAsset"}
               /\ ret'.asset = a
               /\ ret'.user = assets[a].owner_id]_vars

\* a user with a can_download grant for an asset has asked to finalize, rename
\* or delete it and was refused
C33_Witness ==
    /\ ret.op \in {"finalizeUpload", "renameAsset", "deleteAsset"}
    /\ ret.res # "ok"
    /\ ret.asset \in DOMAIN assets
    /\ ret.user # assets[ret.asset].owner_id
    /\ DownloadGrant(ret.asset, ret.user)

C35_TokenDiesWithAccess ==
    [][(ret'.op = "validateDownloadToken" /\ ret'.res = "ok")
       => /\ ret'.asset \in DOMAIN assets
          /\ \/ assets[ret'.asset].owner_id = ret'.user
             \/ [asset_id |-> ret'.asset, to_user |-> ret'.user,
                 can_download |-> TRUE] \in shares]_vars

\* C36: a validateDownloadToken by a user other than the token's leaves the
\* cache as it was, and a validation by the token's user of an entry that is
\* in the cache and has not expired succeeds with the cached asset id,
\* whatever refusals came before.
C36_RefusalKeepsToken ==
    [][\A t \in TokenIds :
         ( /\ ret'.op = "validateDownloadToken"
           /\ ret'.token = t
           /\ t \in DOMAIN urlAccessCache )
         => /\ urlAccessCache[t].userId # ret'.user
               => /\ ret'.res = "FORBIDDEN"
                  /\ UNCHANGED <<urlAccessCache, validations>>
            /\ ( /\ urlAccessCache[t].userId = ret'.user
                 /\ urlAccessCache[t].expiresAt >= 0 )
               => /\ ret'.res = "ok"
                  /\ ret'.asset = urlAccessCache[t].assetId
                  /\ validations'[t] = 1]_vars

\* some time after a token was made another user has presented it and was
\* refused, and the token is still in the cache, live and never validated
C36_Witness ==
    /\ ret.op = "validateDownloadToken"
    /\ ret.at = "user"
    /\ ret.token \in DOMAIN urlAccessCache
    /\ urlAccessCache[ret.token].expiresAt \in 0..(TokenTTL - 1)
    /\ validations[ret.token] = 0

\* C37: an entry leaves the cache only when its expiresAt has passed or in
\* the step of its own successful validation; a step of the sweep, which
\* answers no request, removes expired entries only and leaves the others as
\* they are.
C37_SweepRemovesOnlyExpired ==
    [][/\ \A t \in DOMAIN urlAccessCache \ DOMAIN urlAccessCache' :
            \/ Expired(urlAccessCache[t].expiresAt)
            \/ /\ ret'.op = "validateDownloadToken"
               /\ ret'.token = t
               /\ ret'.res = "ok"
               /\ ret'.user = urlAccessCache[t].userId
       /\ ( /\ UNCHANGED <<pc, req, ret>>
            /\ DOMAIN urlAccessCache' # DOMAIN urlAccessCache )
          => \A t \in DOMAIN urlAccessCache :
               IF Expired(urlAccessCache[t].expiresAt)
               THEN t \notin DOMAIN urlAccessCache'
               ELSE /\ t \in DOMAIN urlAccessCache'
                    /\ urlAccessCache'[t] = urlAccessCache[t]]_vars

\* a token has been validated by its user, successfully, for the first time
C37_Witness ==
    /\ ret.op = "validateDownloadToken"
    /\ ret.at = "valid"
    /\ ret.res = "ok"
    /\ ret.token \notin DOMAIN urlAccessCache
    /\ validations[ret.token] = 1
    /\ \E r \in audit : r.id = ret.token /\ r.user_id = ret.user /\ r.asset_id = ret.asset

\* C38: a getDownloadUrl that fails has not touched the token cache or the
\* audit log: it fails at the asset read, the share lookup or the signing,
\* and only the step after a successful signing writes the cache, with the
\* caller and the asset of the request; a request comes to the signing as
\* the owner or past a share lookup that found a can_download grant.
C38_FailedUrlLeavesNoToken ==
    [][\A p \in Procs :
         /\ (ret'.op = "getDownloadUrl" /\ ret'.res # "ok")
            => /\ ret'.at \in {"asset", "gd_share", "gd_sign"}
               /\ UNCHANGED <<urlAccessCache, minted, audit>>
         /\ ( /\ pc[p] \in {"idle", "gd_share"}
              /\ pc'[p] \in {"gd_share", "gd_sign"}
              /\ pc'[p] # pc[p] )
            => UNCHANGED <<urlAccessCache, minted, audit>>
         /\ \A t \in DOMAIN urlAccessCache' \ DOMAIN urlAccessCache :
              \E q \in Procs : /\ pc[q] = "gd_sign"
                               /\ pc'[q] = "gd_audit"
                               /\ urlAccessCache'[t].userId = req[q].user
                               /\ urlAccessCache'[t].assetId = req[q].asset
         /\ Proceeds(p, "gd_sign")
            => assets[req'[p].asset].owner_id = req'[p].user
         /\ (pc[p] = "gd_share" /\ pc'[p] = "gd_sign")
            => [asset_id |-> req[p].asset, to_user |-> req[p].user,
                can_download |-> TRUE] \in shares]_vars

\* a user with a can_download grant got as far as the signing, which failed:
\* no token was made and no audit row written
C38_Witness ==
    /\ ret.op = "getDownloadUrl"
    /\ ret.at = "gd_sign"
    /\ ret.res = "ERROR"
    /\ DownloadGrant(ret.asset, ret.user)
    /\ urlAccessCache = Empty
    /\ minted = 0
    /\ audit = {}

\* C39: deleteAsset removes blob and row together or not at all: a step of a
\* deleteAsset that removes the blob removes the asset row in the same step,
\* so a failure leaves both; and a deleteAsset that returns success leaves no
\* asset row.
C39_DeleteAllOrNothing ==
    [][\A p \in Procs :
         /\ ( /\ req[p].op = "deleteAsset"
              /\ pc'[p] # pc[p]
              /\ req[p].asset \in DOMAIN blobs
              /\ req[p].asset \notin DOMAIN blobs' )
            => req[p].asset \notin DOMAIN assets'
         /\ (Returns(p, "del_row") /\ ret'.res = "ok")
            => req[p].asset \notin DOMAIN assets']_vars

\* C40: no step changes the storage_path, owner_id, mime or size of an asset
\* row; a ticket's storage_path is its asset's; and the paths made for two
\* different asset ids differ, whoever uploads and whatever the filenames.
C40_StoragePathFixed ==
    /\ \A u1, u2 \in Users, f1, f2 \in Filenames, a, b \in ListIds :
         a # b => StoragePath(u1, a, f1) # StoragePath(u2, b, f2)
    /\ [][/\ \A a \in DOMAIN assets \cap DOMAIN assets' :
               /\ assets'[a].storage_path = assets[a].storage_path
               /\ assets'[a].owner_id = assets[a].owner_id
               /\ assets'[a].mime = assets[a].mime
               /\ assets'[a].size = assets[a].size
          /\ \A a \in DOMAIN tickets' :
               /\ a \in DOMAIN assets'
               /\ tickets'[a].storage_path = assets'[a].storage_path
          /\ \A a, b \in DOMAIN assets' :
               a # b => assets'[a].storage_path # assets'[b].storage_path]_vars

\* an asset has been renamed and finalized: its filename is no longer the one
\* in its storage_path, which is still the path of its ticket
C40_Witness ==
    \E a \in DOMAIN assets :
        /\ assets[a].status = "ready"
        /\ assets[a].version >= 2
        /\ sanitizeFilename(assets[a].filename) # assets[a].storage_path[3]
        /\ a \in DOMAIN tickets
        /\ tickets[a].used = TRUE
        /\ tickets[a].storage_path = assets[a].storage_path

====
